---------------------------- MODULE Spec2Model ----------------------------
(***************************************************************************)
(* A model of utils/conn.go of sish: the per-session state SSHConnection   *)
(* (SendMessage, CleanUp) and the bidirectional relay CopyBoth with the    *)
(* IdleTimeoutConn wrapper.                                                *)
(*                                                                         *)
(* Go's primitives are modelled by their documented semantics:             *)
(*   sync.Once.Do   a fast-path load of done, then a mutex, a second       *)
(*                  check, the body, done.Store(1), Unlock;                *)
(*   chan           a send completes when a receiver takes the value (or   *)
(*                  a buffer slot is free); a closed channel is always     *)
(*                  ready to receive; select picks any ready case and      *)
(*                  takes default only when none is ready;                 *)
(*   io.Copy        read a chunk, write it, stop on EOF (no error) or on   *)
(*                  the first read or write error.                         *)
(***************************************************************************)
EXTENDS Integers, Sequences, FiniteSets, TLC

(***************************************************************************)
(* Bounds of the model.                                                    *)
(***************************************************************************)
NumCallers == 2
MaxCalls == 2
NumSetups == 2
NumSenders == 2
MaxStream == 4
MaxChunk == 3
HelloLen == 2
IdleTimeout == 2
MaxTime == 4

\* SendMessage: the bound of its retry loop, for i := 0; i < 5
MaxAttempts == 5
\* The capacity of s.Messages; the session is built with make(chan string).
MessagesCap == 0

Callers == 1..NumCallers
Setups == 1..NumSetups
Senders == 1..NumSenders

SelfAddr == "10.0.0.1:50000"
OtherAddr == "10.0.0.2:50000"

VARIABLES
    \* ---- SSHConnection and the goroutines that call CleanUp ----
    onceDone,       \* s.Closed: the done flag of the sync.Once
    onceM,          \* s.Closed: the holder of the Once's mutex, 0 when free
    Close,          \* s.Close: "open" or "closed"
    closeOps,       \* how many times close(s.Close) has executed
    sshCloseCalls,  \* how many times s.SSHConn.Close() has been called
    sshCloseErr,    \* whether the last s.SSHConn.Close() returned an error
    tracker,        \* state.SSHConnections: the remote addresses registered
    deleteCalls,    \* how many times the session was deleted from the tracker
    logCalls,       \* how many closure log records were emitted
    cpc,            \* cpc[c]: where caller c is in CleanUp
    calls,          \* calls[c]: how many times caller c has invoked CleanUp
    lost,           \* the callers that took the Once's mutex and found done set
    \* ---- listeners of the session ----
    Listeners,      \* s.Listeners: the forwarding identifiers registered
    lclosed,        \* the listeners that have been closed
    SetupLock,      \* s.SetupLock: the setup holding it, 0 when free
    spc,            \* spc[p]: where listener setup p is
    atTeardown,     \* the listeners registered when the teardown body started
    \* ---- s.Messages, its senders and its consumer ----
    Messages,       \* s.Messages: the buffered values (none when unbuffered)
    received,       \* the messages the consumer has taken, in order
    kpc,            \* where the consumer is
    mpc,            \* mpc[s]: where sender s is in SendMessage
    blockArg,       \* blockArg[s]: the block argument of the call
    iCnt,           \* iCnt[s]: the loop counter i
    attempts,       \* attempts[s]: how many times the select has run
    sleeps,         \* sleeps[s]: how many times time.Sleep has returned
    outcome,        \* outcome[s]: how the call ended
    afterClose,     \* afterClose[s]: the call began after s.Close was closed
    atClose,        \* atClose[s]: the attempts made when s.Close was closed
    \* ---- CopyBoth(writer, reader) ----
    idleConn,       \* viper.GetBool("idle-connection")
    rpc,            \* where the caller of CopyBoth is
    wrapped,        \* tcon is IdleTimeoutConn{Conn: writer}
    dpc,            \* dpc[d]: where copy direction d is
    derr,           \* derr[d]: how io.Copy ended in direction d
    closed,         \* closed[e]: connection e has been closed
    closeCalls,     \* closeCalls[e]: the Close calls CopyBoth made on e
    outside,        \* outside[e]: e was closed by someone else than CopyBoth
    avail,          \* avail[e]: a chunk from e's peer is waiting to be read
    eof,            \* eof[e]: e's peer has finished sending
    stalled,        \* stalled[e]: e's peer is not taking data, writes block
    armed,          \* armed[k]: the read / write deadline of writer is set
    firstEnd,       \* how the first direction to stop ended
    trigger,        \* the end whose closing from outside failed a pending call
    \* ---- PeakTLSHello(reader) and its TeeConn ----
    stream,         \* the bytes reader yields, from its first byte on
    tpos,           \* how many bytes of reader have been consumed
    Buffer,         \* teeConn.Buffer
    got,            \* the bytes TeeConn.Read has returned to its caller
    srcEOF,         \* reader has reported io.EOF
    ppc,            \* where PeakTLSHello is
    tlsHello,       \* the tlsHello variable is non-nil
    hsErr,          \* the error of Handshake(): "nil", "abort" or "capture"
    retBuffer,      \* the buffer PeakTLSHello returned
    \* ---- IdleTimeoutConn used by a reading and a writing goroutine ----
    now,            \* the time, in ticks
    connOpen,       \* i.Conn is open
    deadline,       \* deadline[k]: the read / write deadline of i.Conn
    ipc,            \* ipc[k]: where the Read / Write call is
    dlSet,          \* dlSet[k]: this call has set its deadline
    uCalled,        \* uCalled[k]: this call has invoked i.Conn.Read / Write
    ires,           \* ires[k]: the (n, err) the call returned
    lastOp          \* when Read or Write was last called on the wrapper

sessVars == <<onceDone, onceM, Close, closeOps, sshCloseCalls, sshCloseErr,
              tracker, deleteCalls, logCalls, cpc, calls, lost>>
lsnVars == <<Listeners, lclosed, SetupLock, spc, atTeardown>>
chanVars == <<Messages, received, kpc>>
sndVars == <<mpc, blockArg, iCnt, attempts, sleeps, outcome, afterClose, atClose>>

relVars == <<idleConn, rpc, wrapped, dpc, derr, closed, closeCalls, outside,
             avail, eof, stalled, armed, firstEnd, trigger>>

teeVars == <<stream, tpos, Buffer, got, srcEOF, ppc, tlsHello, hsErr, retBuffer>>
idleVars == <<now, connOpen, deadline, ipc, dlSet, uCalled, ires, lastOp>>

vars == <<sessVars, lsnVars, chanVars, sndVars, relVars, teeVars, idleVars>>

SessInit ==
    /\ onceDone = FALSE
    /\ onceM = 0
    /\ Close = "open"
    /\ closeOps = 0
    /\ sshCloseCalls = 0
    /\ sshCloseErr = FALSE
    /\ tracker = {SelfAddr, OtherAddr}
    /\ deleteCalls = 0
    /\ logCalls = 0
    /\ cpc = [c \in Callers |-> "idle"]
    /\ calls = [c \in Callers |-> 0]
    /\ lost = {}

LsnInit ==
    /\ Listeners = {}
    /\ lclosed = {}
    /\ SetupLock = 0
    /\ spc = [p \in Setups |-> "idle"]
    /\ atTeardown = {}

SendInit ==
    /\ Messages = <<>>
    /\ received = <<>>
    /\ kpc = "busy"
    /\ mpc = [s \in Senders |-> "idle"]
    /\ blockArg = [s \in Senders |-> FALSE]
    /\ iCnt = [s \in Senders |-> 0]
    /\ attempts = [s \in Senders |-> 0]
    /\ sleeps = [s \in Senders |-> 0]
    /\ outcome = [s \in Senders |-> "none"]
    /\ afterClose = [s \in Senders |-> FALSE]
    /\ atClose = [s \in Senders |-> 0]

(***************************************************************************)
(* CleanUp: s.Closed.Do(func() { ... }).                                   *)
(***************************************************************************)

\* A goroutine invokes s.CleanUp(state); Do loads done on its fast path.
CleanUpCall(c) ==
    /\ cpc[c] \in {"idle", "ret"}
    /\ calls[c] < MaxCalls
    /\ calls' = [calls EXCEPT ![c] = @ + 1]
    /\ cpc' = [cpc EXCEPT ![c] = IF onceDone THEN "ret" ELSE "lock"]
    /\ UNCHANGED <<onceDone, onceM, Close, closeOps, sshCloseCalls,
                   sshCloseErr, tracker, deleteCalls, logCalls>>
    /\ UNCHANGED lost
    /\ UNCHANGED <<lsnVars, chanVars, sndVars, relVars, teeVars, idleVars>>

\* A body that closes the connection before it fires the close signal.
BodyOrderConnFirst == <<"sshclose", "close", "delete", "log">>

\* The statements of the function passed to s.Closed.Do, in program order.
BodyOrder == <<"close", "sshclose", "delete", "log">>

\* Where the caller is after the body's statement st: at the next statement,
\* or at the end of the body.
After(st) ==
    LET k == CHOOSE j \in 1..Len(BodyOrder) : BodyOrder[j] = st
    IN  IF k < Len(BodyOrder) THEN BodyOrder[k + 1] ELSE "store"

\* A Once that leaves out the second check of done under the mutex.
OnceRunsBodyUnchecked == TRUE

\* doSlow: whether the caller holding the mutex runs the body.
OnceRunsBody == ~onceDone

\* A Once whose losing caller does not wait for the mutex: it returns at
\* once when another caller holds it.
OnceLockNoWait(c) ==
    /\ cpc[c] = "lock"
    /\ IF onceM = 0
       THEN /\ onceM' = c
            /\ cpc' = [cpc EXCEPT ![c] =
                          IF OnceRunsBody THEN BodyOrder[1] ELSE "unlock"]
            /\ lost' = IF OnceRunsBody THEN lost ELSE lost \cup {c}
       ELSE /\ cpc' = [cpc EXCEPT ![c] = "ret"]
            /\ lost' = lost \cup {c}
            /\ UNCHANGED onceM
    /\ UNCHANGED <<onceDone, Close, closeOps, sshCloseCalls, sshCloseErr,
                   tracker, deleteCalls, logCalls, calls>>
    /\ UNCHANGED <<lsnVars, chanVars, sndVars, relVars, teeVars, idleVars>>

\* doSlow: o.m.Lock(), then the second check of done.  A caller that finds
\* done set here lost the race to run the body (recorded in lost).
OnceLock(c) ==
    /\ cpc[c] = "lock"
    /\ onceM = 0
    /\ onceM' = c
    /\ cpc' = [cpc EXCEPT ![c] = IF OnceRunsBody THEN BodyOrder[1] ELSE "unlock"]
    /\ lost' = IF OnceRunsBody THEN lost ELSE lost \cup {c}
    /\ UNCHANGED <<onceDone, Close, closeOps, sshCloseCalls, sshCloseErr,
                   tracker, deleteCalls, logCalls, calls>>
    /\ UNCHANGED <<lsnVars, chanVars, sndVars, relVars, teeVars, idleVars>>

\* close(s.Close): every goroutine parked on the channel is woken with the
\* closed case chosen; here the consumer, parked in its select.
BodyClose(c) ==
    /\ cpc[c] = "close"
    /\ Close' = "closed"
    /\ closeOps' = closeOps + 1
    /\ cpc' = [cpc EXCEPT ![c] = After("close")]
    /\ kpc' = IF kpc = "recv" THEN "woken" ELSE kpc
    /\ atTeardown' = Listeners
    /\ atClose' = [s \in Senders |->
                     IF mpc[s] \in {"select", "sleep"} THEN attempts[s] ELSE 0]
    /\ UNCHANGED <<onceDone, onceM, sshCloseCalls, sshCloseErr, tracker,
                   deleteCalls, logCalls, calls>>
    /\ UNCHANGED <<Listeners, lclosed, SetupLock, spc, Messages, received>>
    /\ UNCHANGED lost
    /\ UNCHANGED <<mpc, blockArg, iCnt, attempts, sleeps, outcome, afterClose, relVars, teeVars, idleVars>>

\* A body that stops at the error of s.SSHConn.Close().
BodySSHCloseAborts(c) ==
    /\ cpc[c] = "sshclose"
    /\ sshCloseCalls' = sshCloseCalls + 1
    /\ \E err \in BOOLEAN :
          /\ sshCloseErr' = err
          /\ cpc' = [cpc EXCEPT ![c] = IF err THEN "store" ELSE After("sshclose")]
    /\ UNCHANGED <<onceDone, onceM, Close, closeOps, tracker, deleteCalls,
                   logCalls, calls>>
    /\ UNCHANGED lost
    /\ UNCHANGED <<lsnVars, chanVars, sndVars, relVars, teeVars, idleVars>>

\* s.SSHConn.Close(): its error, if any, is discarded.
BodySSHClose(c) ==
    /\ cpc[c] = "sshclose"
    /\ sshCloseCalls' = sshCloseCalls + 1
    /\ \E err \in BOOLEAN : sshCloseErr' = err
    /\ cpc' = [cpc EXCEPT ![c] = After("sshclose")]
    /\ UNCHANGED <<onceDone, onceM, Close, closeOps, tracker, deleteCalls,
                   logCalls, calls>>
    /\ UNCHANGED lost
    /\ UNCHANGED <<lsnVars, chanVars, sndVars, relVars, teeVars, idleVars>>

\* state.SSHConnections.Delete(s.SSHConn.RemoteAddr().String())
BodyDelete(c) ==
    /\ cpc[c] = "delete"
    /\ tracker' = tracker \ {SelfAddr}
    /\ deleteCalls' = deleteCalls + 1
    /\ cpc' = [cpc EXCEPT ![c] = After("delete")]
    /\ UNCHANGED <<onceDone, onceM, Close, closeOps, sshCloseCalls,
                   sshCloseErr, logCalls, calls>>
    /\ UNCHANGED lost
    /\ UNCHANGED <<lsnVars, chanVars, sndVars, relVars, teeVars, idleVars>>

\* log.Println("Closed SSH connection for:", ...)
BodyLog(c) ==
    /\ cpc[c] = "log"
    /\ logCalls' = logCalls + 1
    /\ cpc' = [cpc EXCEPT ![c] = After("log")]
    /\ UNCHANGED <<onceDone, onceM, Close, closeOps, sshCloseCalls,
                   sshCloseErr, tracker, deleteCalls, calls>>
    /\ UNCHANGED lost
    /\ UNCHANGED <<lsnVars, chanVars, sndVars, relVars, teeVars, idleVars>>

\* doSlow: the deferred o.done.Store(1)
OnceStore(c) ==
    /\ cpc[c] = "store"
    /\ onceDone' = TRUE
    /\ cpc' = [cpc EXCEPT ![c] = "unlock"]
    /\ UNCHANGED <<onceM, Close, closeOps, sshCloseCalls, sshCloseErr,
                   tracker, deleteCalls, logCalls, calls>>
    /\ UNCHANGED lost
    /\ UNCHANGED <<lsnVars, chanVars, sndVars, relVars, teeVars, idleVars>>

\* doSlow: the deferred o.m.Unlock(); Do and CleanUp return.
OnceUnlock(c) ==
    /\ cpc[c] = "unlock"
    /\ onceM = c
    /\ onceM' = 0
    /\ cpc' = [cpc EXCEPT ![c] = "ret"]
    /\ UNCHANGED <<onceDone, Close, closeOps, sshCloseCalls, sshCloseErr,
                   tracker, deleteCalls, logCalls, calls>>
    /\ UNCHANGED lost
    /\ UNCHANGED <<lsnVars, chanVars, sndVars, relVars, teeVars, idleVars>>

CleanUp(c) ==
    \/ CleanUpCall(c)
    \/ OnceLock(c)
    \/ BodyClose(c)
    \/ BodySSHClose(c)
    \/ BodyDelete(c)
    \/ BodyLog(c)
    \/ OnceStore(c)
    \/ OnceUnlock(c)

(***************************************************************************)
(* Listener setup: the code that registers a forwarded listener takes      *)
(* s.SetupLock, stores the listener in s.Listeners and releases the lock;  *)
(* a listener can be closed on its own, which removes it from the map.     *)
(***************************************************************************)
SetupAcquire(p) ==
    /\ spc[p] = "idle"
    /\ SetupLock = 0
    /\ SetupLock' = p
    /\ spc' = [spc EXCEPT ![p] = "locked"]
    /\ UNCHANGED <<Listeners, lclosed, atTeardown>>
    /\ UNCHANGED <<sessVars, chanVars, sndVars, relVars, teeVars, idleVars>>

SetupStore(p) ==
    /\ spc[p] = "locked"
    /\ Listeners' = Listeners \cup {p}
    /\ spc' = [spc EXCEPT ![p] = "stored"]
    /\ UNCHANGED <<lclosed, SetupLock, atTeardown>>
    /\ UNCHANGED <<sessVars, chanVars, sndVars, relVars, teeVars, idleVars>>

SetupRelease(p) ==
    /\ spc[p] = "stored"
    /\ SetupLock = p
    /\ SetupLock' = 0
    /\ spc' = [spc EXCEPT ![p] = "done"]
    /\ UNCHANGED <<Listeners, lclosed, atTeardown>>
    /\ UNCHANGED <<sessVars, chanVars, sndVars, relVars, teeVars, idleVars>>

ListenerClose(p) ==
    /\ p \in Listeners
    /\ Listeners' = Listeners \ {p}
    /\ lclosed' = lclosed \cup {p}
    /\ UNCHANGED <<SetupLock, spc, atTeardown>>
    /\ UNCHANGED <<sessVars, chanVars, sndVars, relVars, teeVars, idleVars>>

SessionNext ==
    \/ \E c \in Callers : CleanUp(c)
    \/ \E p \in Setups : SetupAcquire(p)
    \/ \E p \in Setups : SetupStore(p)
    \/ \E p \in Setups : SetupRelease(p)
    \/ \E p \in Setups : ListenerClose(p)

(***************************************************************************)
(* The consumer of s.Messages: the goroutine that forwards notices over    *)
(* the SSH session.  It loops on select { <-s.Messages, <-s.Close }: it    *)
(* takes a message when one is offered, stops when the close signal has    *)
(* fired, and parks when neither is ready.  It may stay busy for ever (a   *)
(* slow or absent client).                                                 *)
(***************************************************************************)
Range(q) == {q[k] : k \in 1..Len(q)}

\* The blocking senders parked on s.Messages (a sender inside select never
\* parks on the channel: its select has a default case).
Parked == {s \in Senders : mpc[s] = "send"}

ConsumerTake ==
    /\ kpc = "busy"
    /\ IF Messages # <<>>
       THEN /\ received' = Append(received, Head(Messages))
            /\ Messages' = Tail(Messages)
            /\ UNCHANGED <<mpc, outcome>>
       ELSE \E s \in Parked :
            /\ received' = Append(received, s)
            /\ mpc' = [mpc EXCEPT ![s] = "ret"]
            /\ outcome' = [outcome EXCEPT ![s] = "sent"]
            /\ UNCHANGED Messages
    /\ UNCHANGED <<kpc, blockArg, iCnt, attempts, sleeps, afterClose, atClose>>
    /\ UNCHANGED <<sessVars, lsnVars, relVars, teeVars, idleVars>>

ConsumerPark ==
    /\ kpc = "busy"
    /\ Messages = <<>> /\ Parked = {} /\ Close = "open"
    /\ kpc' = "recv"
    /\ UNCHANGED <<Messages, received>>
    /\ UNCHANGED <<sessVars, lsnVars, sndVars, relVars, teeVars, idleVars>>

ConsumerStop ==
    /\ \/ kpc = "woken"
       \/ kpc = "busy" /\ Close = "closed"
    /\ kpc' = "exited"
    /\ UNCHANGED <<Messages, received>>
    /\ UNCHANGED <<sessVars, lsnVars, sndVars, relVars, teeVars, idleVars>>

(***************************************************************************)
(* SendMessage                                                             *)
(***************************************************************************)

\* A send on s.Messages can complete: a receiver is parked on the channel,
\* or the buffer has room.
SendReady == kpc = "recv" \/ Len(Messages) < MessagesCap

\* The effect of a completed send of s's message on the channel.
Enqueue(s) ==
    IF kpc = "recv"
    THEN /\ received' = Append(received, s)
         /\ kpc' = "busy"
         /\ UNCHANGED Messages
    ELSE /\ Messages' = Append(Messages, s)
         /\ UNCHANGED <<received, kpc>>

\* func (s *SSHConnection) SendMessage(message string, block bool)
SendCall(s) ==
    /\ mpc[s] = "idle"
    /\ \E b \in BOOLEAN :
        /\ blockArg' = [blockArg EXCEPT ![s] = b]
        /\ mpc' = [mpc EXCEPT ![s] = IF b THEN "send" ELSE "select"]
    /\ afterClose' = [afterClose EXCEPT ![s] = (Close = "closed")]
    /\ UNCHANGED <<iCnt, attempts, sleeps, outcome, atClose>>
    /\ UNCHANGED <<sessVars, lsnVars, chanVars, relVars, teeVars, idleVars>>

\* A blocking branch that gives up when the send cannot complete at once.
SendBlockingNoWait(s) ==
    /\ mpc[s] = "send"
    /\ IF SendReady
       THEN Enqueue(s) /\ outcome' = [outcome EXCEPT ![s] = "sent"]
       ELSE UNCHANGED <<chanVars, outcome>>
    /\ mpc' = [mpc EXCEPT ![s] = "ret"]
    /\ UNCHANGED <<blockArg, iCnt, attempts, sleeps, afterClose, atClose>>
    /\ UNCHANGED <<sessVars, lsnVars, relVars, teeVars, idleVars>>

\* if block { s.Messages <- message; return }
SendBlocking(s) ==
    /\ mpc[s] = "send"
    /\ SendReady
    /\ Enqueue(s)
    /\ mpc' = [mpc EXCEPT ![s] = "ret"]
    /\ outcome' = [outcome EXCEPT ![s] = "sent"]
    /\ UNCHANGED <<blockArg, iCnt, attempts, sleeps, afterClose, atClose>>
    /\ UNCHANGED <<sessVars, lsnVars, relVars, teeVars, idleVars>>

\* select: case <-s.Close: return
SelectClose(s) ==
    /\ mpc[s] = "select"
    /\ Close = "closed"
    /\ attempts' = [attempts EXCEPT ![s] = @ + 1]
    /\ mpc' = [mpc EXCEPT ![s] = "ret"]
    /\ outcome' = [outcome EXCEPT ![s] = "closed"]
    /\ UNCHANGED <<blockArg, iCnt, sleeps, afterClose, atClose>>
    /\ UNCHANGED <<sessVars, lsnVars, chanVars, relVars, teeVars, idleVars>>

\* A select whose send case does not return: the loop goes on to sleep
\* and retry after the message was enqueued.
SelectSendNoReturn(s) ==
    /\ mpc[s] = "select"
    /\ SendReady
    /\ Enqueue(s)
    /\ attempts' = [attempts EXCEPT ![s] = @ + 1]
    /\ mpc' = [mpc EXCEPT ![s] = "sleep"]
    /\ outcome' = [outcome EXCEPT ![s] = "sent"]
    /\ UNCHANGED <<blockArg, iCnt, sleeps, afterClose, atClose>>
    /\ UNCHANGED <<sessVars, lsnVars, relVars, teeVars, idleVars>>

\* select: case s.Messages <- message: return
SelectSend(s) ==
    /\ mpc[s] = "select"
    /\ SendReady
    /\ Enqueue(s)
    /\ attempts' = [attempts EXCEPT ![s] = @ + 1]
    /\ mpc' = [mpc EXCEPT ![s] = "ret"]
    /\ outcome' = [outcome EXCEPT ![s] = "sent"]
    /\ UNCHANGED <<blockArg, iCnt, sleeps, afterClose, atClose>>
    /\ UNCHANGED <<sessVars, lsnVars, relVars, teeVars, idleVars>>

\* A select whose default is taken although the close signal has fired.
SelectDefaultIgnoringClose(s) ==
    /\ mpc[s] = "select"
    /\ ~SendReady
    /\ attempts' = [attempts EXCEPT ![s] = @ + 1]
    /\ mpc' = [mpc EXCEPT ![s] = "sleep"]
    /\ UNCHANGED <<blockArg, iCnt, sleeps, outcome, afterClose, atClose>>
    /\ UNCHANGED <<sessVars, lsnVars, chanVars, relVars, teeVars, idleVars>>

\* select: default, taken only when no other case is ready; the goroutine
\* enters time.Sleep(100 * time.Millisecond).
SelectDefault(s) ==
    /\ mpc[s] = "select"
    /\ Close = "open"
    /\ ~SendReady
    /\ attempts' = [attempts EXCEPT ![s] = @ + 1]
    /\ mpc' = [mpc EXCEPT ![s] = "sleep"]
    /\ UNCHANGED <<blockArg, iCnt, sleeps, outcome, afterClose, atClose>>
    /\ UNCHANGED <<sessVars, lsnVars, chanVars, relVars, teeVars, idleVars>>

\* A loop that runs one round too many.
LoopContinuesOffByOne(i) == i <= MaxAttempts

\* The loop condition of for i := 0; i < 5; { ... }
LoopContinues(i) == i < MaxAttempts

\* time.Sleep returns; i++; the loop condition is tested and the function
\* returns when it fails.
SleepDone(s) ==
    /\ mpc[s] = "sleep"
    /\ sleeps' = [sleeps EXCEPT ![s] = @ + 1]
    /\ iCnt' = [iCnt EXCEPT ![s] = @ + 1]
    /\ IF LoopContinues(iCnt[s] + 1)
       THEN /\ mpc' = [mpc EXCEPT ![s] = "select"]
            /\ UNCHANGED outcome
       ELSE /\ mpc' = [mpc EXCEPT ![s] = "ret"]
            /\ outcome' = [outcome EXCEPT ![s] = "dropped"]
    /\ UNCHANGED <<blockArg, attempts, afterClose, atClose>>
    /\ UNCHANGED <<sessVars, lsnVars, chanVars, relVars, teeVars, idleVars>>

SendMessage(s) ==
    \/ SendCall(s)
    \/ SendBlocking(s)
    \/ SelectClose(s)
    \/ SelectSend(s)
    \/ SelectDefault(s)
    \/ SleepDone(s)

\* One goroutine tearing the session down while messages are sent.
TeardownCaller == CHOOSE c \in Callers : TRUE

SendNext ==
    \/ \E s \in Senders : SendMessage(s)
    \/ ConsumerTake
    \/ ConsumerPark
    \/ ConsumerStop
    \/ CleanUp(TeardownCaller)

(***************************************************************************)
(* CopyBoth(writer net.Conn, reader io.ReadWriteCloser)                    *)
(*                                                                         *)
(* writer is the downstream connection, reader the upstream one.           *)
(* copyToReader is io.Copy(reader, tcon), run in the launched goroutine;   *)
(* copyToWriter is io.Copy(tcon, reader), run by the caller.               *)
(***************************************************************************)
Ends == {"writer", "reader"}
Dirs == {"copyToReader", "copyToWriter"}

\* io.Copy(dst, src) of each direction
Src(d) == IF d = "copyToReader" THEN "writer" ELSE "reader"
Dst(d) == IF d = "copyToReader" THEN "reader" ELSE "writer"
Other(e) == IF e = "writer" THEN "reader" ELSE "writer"

\* The calls on writer go through IdleTimeoutConn.
ViaTcon(e) == e = "writer" /\ wrapped

RelayInit ==
    /\ idleConn \in BOOLEAN
    /\ rpc = "start"
    /\ wrapped = FALSE
    /\ dpc = [d \in Dirs |-> "off"]
    /\ derr = [d \in Dirs |-> "none"]
    /\ closed = [e \in Ends |-> FALSE]
    /\ closeCalls = [e \in Ends |-> 0]
    /\ outside = [e \in Ends |-> "no"]
    /\ avail = [e \in Ends |-> FALSE]
    /\ eof = [e \in Ends |-> FALSE]
    /\ stalled = [e \in Ends |-> FALSE]
    /\ armed = [k \in {"read", "write"} |-> FALSE]
    /\ firstEnd = "none"
    /\ trigger = "none"

envVars == <<closed, outside, avail, eof, stalled, trigger>>

\* if viper.GetBool("idle-connection") { tcon = IdleTimeoutConn{...} } else { tcon = writer }
ChooseTcon ==
    /\ rpc = "start"
    /\ wrapped' = idleConn
    /\ rpc' = "go"
    /\ UNCHANGED <<idleConn, dpc, derr, closeCalls, armed, firstEnd, envVars>>
    /\ UNCHANGED <<sessVars, lsnVars, chanVars, sndVars, teeVars, idleVars>>

\* Where io.Copy starts a Read on src, or a Write on dst.
ReadPc(e) == IF ViaTcon(e) THEN "setReadDeadline" ELSE "read"
WritePc(e) == IF ViaTcon(e) THEN "setWriteDeadline" ELSE "write"

\* go copyToReader()
GoCopyToReader ==
    /\ rpc = "go"
    /\ dpc' = [dpc EXCEPT !["copyToReader"] = ReadPc(Src("copyToReader"))]
    /\ rpc' = "call"
    /\ UNCHANGED <<idleConn, wrapped, derr, closeCalls, armed, firstEnd, envVars>>
    /\ UNCHANGED <<sessVars, lsnVars, chanVars, sndVars, teeVars, idleVars>>

\* copyToWriter()
CallCopyToWriter ==
    /\ rpc = "call"
    /\ dpc' = [dpc EXCEPT !["copyToWriter"] = ReadPc(Src("copyToWriter"))]
    /\ rpc' = "running"
    /\ UNCHANGED <<idleConn, wrapped, derr, closeCalls, armed, firstEnd, envVars>>
    /\ UNCHANGED <<sessVars, lsnVars, chanVars, sndVars, teeVars, idleVars>>

\* io.Copy returns in direction d with the result r; closeBoth() is next.
CopyEnds(d, r) ==
    /\ dpc' = [dpc EXCEPT ![d] = "closeReader"]
    /\ derr' = [derr EXCEPT ![d] = r]
    /\ firstEnd' = IF firstEnd = "none" THEN r ELSE firstEnd

\* IdleTimeoutConn.Read: i.Conn.SetReadDeadline(...); an error ends the Read
\* with (0, err), and io.Copy with it.
SetReadDeadline(d) ==
    /\ dpc[d] = "setReadDeadline"
    /\ IF closed[Src(d)]
       THEN CopyEnds(d, "err") /\ UNCHANGED armed
       ELSE /\ armed' = [armed EXCEPT !["read"] = TRUE]
            /\ dpc' = [dpc EXCEPT ![d] = "read"]
            /\ UNCHANGED <<derr, firstEnd>>
    /\ UNCHANGED <<idleConn, rpc, wrapped, closeCalls, envVars>>
    /\ UNCHANGED <<sessVars, lsnVars, chanVars, sndVars, teeVars, idleVars>>

\* src.Read: an error on a closed connection, else a chunk when one is
\* waiting, else io.EOF when the peer has finished; it blocks otherwise.
\* io.Copy returns nil on io.EOF.
Read(d) ==
    /\ dpc[d] = "read"
    /\ closed[Src(d)] \/ avail[Src(d)] \/ eof[Src(d)]
    /\ IF closed[Src(d)]
       THEN CopyEnds(d, "err") /\ UNCHANGED avail
       ELSE IF avail[Src(d)]
       THEN /\ avail' = [avail EXCEPT ![Src(d)] = FALSE]
            /\ dpc' = [dpc EXCEPT ![d] = WritePc(Dst(d))]
            /\ UNCHANGED <<derr, firstEnd>>
       ELSE CopyEnds(d, "eof") /\ UNCHANGED avail
    /\ UNCHANGED <<idleConn, rpc, wrapped, closeCalls, armed>>
    /\ UNCHANGED <<closed, outside, eof, stalled, trigger>>
    /\ UNCHANGED <<sessVars, lsnVars, chanVars, sndVars, teeVars, idleVars>>

\* IdleTimeoutConn.Write: i.Conn.SetWriteDeadline(...)
SetWriteDeadline(d) ==
    /\ dpc[d] = "setWriteDeadline"
    /\ IF closed[Dst(d)]
       THEN CopyEnds(d, "err") /\ UNCHANGED armed
       ELSE /\ armed' = [armed EXCEPT !["write"] = TRUE]
            /\ dpc' = [dpc EXCEPT ![d] = "write"]
            /\ UNCHANGED <<derr, firstEnd>>
    /\ UNCHANGED <<idleConn, rpc, wrapped, closeCalls, envVars>>
    /\ UNCHANGED <<sessVars, lsnVars, chanVars, sndVars, teeVars, idleVars>>

\* dst.Write: an error on a closed connection; it completes when the peer
\* takes the data and blocks while the peer is stalled.
Write(d) ==
    /\ dpc[d] = "write"
    /\ closed[Dst(d)] \/ ~stalled[Dst(d)]
    /\ IF closed[Dst(d)]
       THEN CopyEnds(d, "err")
       ELSE /\ dpc' = [dpc EXCEPT ![d] = ReadPc(Src(d))]
            /\ UNCHANGED <<derr, firstEnd>>
    /\ UNCHANGED <<idleConn, rpc, wrapped, closeCalls, armed, envVars>>
    /\ UNCHANGED <<sessVars, lsnVars, chanVars, sndVars, teeVars, idleVars>>

\* A Read or Write on writer that is still blocked when its deadline passes
\* fails with a timeout.
DeadlineExpires(d) ==
    /\ \/ dpc[d] = "read" /\ ViaTcon(Src(d)) /\ armed["read"]
          /\ ~closed[Src(d)] /\ ~avail[Src(d)] /\ ~eof[Src(d)]
       \/ dpc[d] = "write" /\ ViaTcon(Dst(d)) /\ armed["write"]
          /\ ~closed[Dst(d)] /\ stalled[Dst(d)]
    /\ CopyEnds(d, "err")
    /\ UNCHANGED <<idleConn, rpc, wrapped, closeCalls, armed, envVars>>
    /\ UNCHANGED <<sessVars, lsnVars, chanVars, sndVars, teeVars, idleVars>>

\* A closeBoth that leaves reader open.
CloseReaderSkipped(d) ==
    /\ dpc[d] = "closeReader"
    /\ dpc' = [dpc EXCEPT ![d] = "closeWriter"]
    /\ UNCHANGED <<idleConn, rpc, wrapped, derr, closeCalls, armed, firstEnd, envVars>>
    /\ UNCHANGED <<sessVars, lsnVars, chanVars, sndVars, teeVars, idleVars>>

\* closeBoth: reader.Close()
CloseReader(d) ==
    /\ dpc[d] = "closeReader"
    /\ closed' = [closed EXCEPT !["reader"] = TRUE]
    /\ closeCalls' = [closeCalls EXCEPT !["reader"] = @ + 1]
    /\ dpc' = [dpc EXCEPT ![d] = "closeWriter"]
    /\ UNCHANGED <<idleConn, rpc, wrapped, derr, armed, firstEnd>>
    /\ UNCHANGED <<outside, avail, eof, stalled, trigger>>
    /\ UNCHANGED <<sessVars, lsnVars, chanVars, sndVars, teeVars, idleVars>>

\* A closeBoth that calls writer.Close() only while writer is open.
CloseWriterIfOpen(d) ==
    /\ dpc[d] = "closeWriter"
    /\ closed' = [closed EXCEPT !["writer"] = TRUE]
    /\ closeCalls' = [closeCalls EXCEPT !["writer"] =
                         IF closed["writer"] THEN @ ELSE @ + 1]
    /\ dpc' = [dpc EXCEPT ![d] = "done"]
    /\ UNCHANGED <<idleConn, rpc, wrapped, derr, armed, firstEnd>>
    /\ UNCHANGED <<outside, avail, eof, stalled, trigger>>
    /\ UNCHANGED <<sessVars, lsnVars, chanVars, sndVars, teeVars, idleVars>>

\* closeBoth: writer.Close()
CloseWriter(d) ==
    /\ dpc[d] = "closeWriter"
    /\ closed' = [closed EXCEPT !["writer"] = TRUE]
    /\ closeCalls' = [closeCalls EXCEPT !["writer"] = @ + 1]
    /\ dpc' = [dpc EXCEPT ![d] = "done"]
    /\ UNCHANGED <<idleConn, rpc, wrapped, derr, armed, firstEnd>>
    /\ UNCHANGED <<outside, avail, eof, stalled, trigger>>
    /\ UNCHANGED <<sessVars, lsnVars, chanVars, sndVars, teeVars, idleVars>>

\* One step of copyToReader or copyToWriter.
CopyStep(d) ==
    \/ SetReadDeadline(d)
    \/ Read(d)
    \/ SetWriteDeadline(d)
    \/ Write(d)
    \/ CloseReader(d)
    \/ CloseWriter(d)

\* A CopyBoth that launches both directions and waits for neither.
ReturnGuardNone == TRUE

\* A CopyBoth that joins the goroutine before it returns.
ReturnGuardJoin == \A d \in Dirs : dpc[d] = "done"

\* What CopyBoth's return waits for: copyToWriter(), the last statement.
ReturnGuard == dpc["copyToWriter"] = "done"

\* CopyBoth returns.
CopyBothReturn ==
    /\ rpc = "running"
    /\ ReturnGuard
    /\ rpc' = "returned"
    /\ UNCHANGED <<idleConn, wrapped, dpc, derr, closeCalls, armed, firstEnd, envVars>>
    /\ UNCHANGED <<sessVars, lsnVars, chanVars, sndVars, teeVars, idleVars>>

(***************************************************************************)
(* The two connections' other sides.                                       *)
(***************************************************************************)
Reading(e) == \E d \in Dirs : Src(d) = e /\ dpc[d] \in {"setReadDeadline", "read"}
Writing(e) == \E d \in Dirs : Dst(d) = e /\ dpc[d] \in {"setWriteDeadline", "write"}

\* Someone else than CopyBoth closes e: pending and later calls on e fail.
CloseFromOutside(e) ==
    /\ rpc \in {"running"}
    /\ ~closed[e]
    /\ outside[e] = "no"
    /\ closed' = [closed EXCEPT ![e] = TRUE]
    /\ outside' = [outside EXCEPT ![e] = "closed"]
    /\ trigger' = IF trigger = "none" /\ (Reading(e) \/ Writing(e)) THEN e ELSE trigger
    /\ UNCHANGED <<idleConn, rpc, wrapped, dpc, derr, closeCalls, armed, firstEnd>>
    /\ UNCHANGED <<avail, eof, stalled>>
    /\ UNCHANGED <<sessVars, lsnVars, chanVars, sndVars, teeVars, idleVars>>

\* e's peer closes its side: a Read on e returns io.EOF once nothing is left.
PeerCloses(e) ==
    /\ rpc \in {"running"}
    /\ ~eof[e]
    /\ eof' = [eof EXCEPT ![e] = TRUE]
    /\ trigger' = IF trigger = "none" /\ ~closed[e] /\ ~avail[e] /\ Reading(e)
                  THEN e ELSE trigger
    /\ outside' = [outside EXCEPT ![e] = IF @ = "no" /\ ~closed[e] THEN "eof" ELSE @]
    /\ UNCHANGED <<idleConn, rpc, wrapped, dpc, derr, closeCalls, armed, firstEnd>>
    /\ UNCHANGED <<closed, avail, stalled>>
    /\ UNCHANGED <<sessVars, lsnVars, chanVars, sndVars, teeVars, idleVars>>

\* e's peer sends a chunk.
PeerSends(e) ==
    /\ ~eof[e] /\ ~avail[e] /\ ~closed[e]
    /\ avail' = [avail EXCEPT ![e] = TRUE]
    /\ UNCHANGED <<idleConn, rpc, wrapped, dpc, derr, closeCalls, armed, firstEnd>>
    /\ UNCHANGED <<closed, outside, eof, stalled, trigger>>
    /\ UNCHANGED <<sessVars, lsnVars, chanVars, sndVars, teeVars, idleVars>>

\* e's peer stops, or resumes, taking data.
PeerStalls(e) ==
    /\ ~closed[e]
    /\ stalled' = [stalled EXCEPT ![e] = ~@]
    /\ UNCHANGED <<idleConn, rpc, wrapped, dpc, derr, closeCalls, armed, firstEnd>>
    /\ UNCHANGED <<closed, outside, avail, eof, trigger>>
    /\ UNCHANGED <<sessVars, lsnVars, chanVars, sndVars, teeVars, idleVars>>

CopyBoth ==
    \/ ChooseTcon
    \/ GoCopyToReader
    \/ CallCopyToWriter
    \/ \E d \in Dirs : CopyStep(d)
    \/ CopyBothReturn

RelayNext ==
    \/ CopyBoth
    \/ \E d \in Dirs : DeadlineExpires(d)
    \/ \E e \in Ends : CloseFromOutside(e)
    \/ \E e \in Ends : PeerCloses(e)
    \/ \E e \in Ends : PeerSends(e)
    \/ \E e \in Ends : PeerStalls(e)

(***************************************************************************)
(* IdleTimeoutConn: Read and Write of the wrapper, each used by one        *)
(* goroutine as in CopyBoth, over one underlying net.Conn with a read      *)
(* deadline and a write deadline.  Time is counted in ticks; the timeout   *)
(* "idle-connection-timeout" is IdleTimeout ticks.                         *)
(***************************************************************************)
Kinds == {"read", "write"}

IdleInit ==
    /\ now = 0
    /\ connOpen = TRUE
    /\ deadline = [k \in Kinds |-> -1]
    /\ ipc = [k \in Kinds |-> "idle"]
    /\ dlSet = [k \in Kinds |-> FALSE]
    /\ uCalled = [k \in Kinds |-> FALSE]
    /\ ires = [k \in Kinds |-> [n |-> 0, err |-> "none", quiet |-> 0]]
    /\ lastOp = 0

idleEnv == <<sessVars, lsnVars, chanVars, sndVars, relVars, teeVars>>

\* i.Read(buf) or i.Write(buf) is called.
IdleCall(k) ==
    /\ ipc[k] \in {"idle", "ret"}
    /\ ipc' = [ipc EXCEPT ![k] = "setDeadline"]
    /\ dlSet' = [dlSet EXCEPT ![k] = FALSE]
    /\ uCalled' = [uCalled EXCEPT ![k] = FALSE]
    /\ lastOp' = now
    /\ UNCHANGED <<now, connOpen, deadline, ires>>
    /\ UNCHANGED idleEnv

\* A wrapper that goes on to the I/O whatever SetReadDeadline returned.
DeadlineErrIgnored(ok) == FALSE

\* if err != nil { return 0, err }
DeadlineErrReturns(ok) == ~ok

\* err := i.Conn.SetReadDeadline(now + timeout) in Read, SetWriteDeadline
\* in Write: it sets the deadline of that kind only, and fails on a
\* connection that is no longer usable.
IdleSetDeadline(k) ==
    /\ ipc[k] = "setDeadline"
    /\ dlSet' = [dlSet EXCEPT ![k] = connOpen]
    /\ deadline' = IF connOpen
                   THEN [deadline EXCEPT ![k] = now + IdleTimeout]
                   ELSE deadline
    /\ IF DeadlineErrReturns(connOpen)
       THEN /\ ires' = [ires EXCEPT ![k] =
                           [n |-> 0, err |-> "deadline", quiet |-> 0]]
            /\ ipc' = [ipc EXCEPT ![k] = "ret"]
       ELSE /\ ipc' = [ipc EXCEPT ![k] = "io"]
            /\ UNCHANGED ires
    /\ UNCHANGED <<now, connOpen, uCalled, lastOp>>
    /\ UNCHANGED idleEnv

\* return i.Conn.Read(buf) / i.Conn.Write(buf): the underlying call starts.
IdleIO(k) ==
    /\ ipc[k] = "io"
    /\ uCalled' = [uCalled EXCEPT ![k] = TRUE]
    /\ ipc' = [ipc EXCEPT ![k] = "pending"]
    /\ UNCHANGED <<now, connOpen, deadline, dlSet, ires, lastOp>>
    /\ UNCHANGED idleEnv

\* The underlying call transfers bytes before its deadline.
IdleComplete(k) ==
    /\ ipc[k] = "pending"
    /\ connOpen
    /\ now < deadline[k]
    /\ ires' = [ires EXCEPT ![k] = [n |-> 1, err |-> "none", quiet |-> 0]]
    /\ ipc' = [ipc EXCEPT ![k] = "ret"]
    /\ lastOp' = now
    /\ UNCHANGED <<now, connOpen, deadline, dlSet, uCalled>>
    /\ UNCHANGED idleEnv

\* The deadline of the pending call's kind passes: the call fails with a
\* timeout.  quiet is the time since the last Read or Write on the
\* connection was called or transferred bytes.
IdleTimesOut(k) ==
    /\ ipc[k] = "pending"
    /\ connOpen
    /\ now >= deadline[k]
    /\ ires' = [ires EXCEPT ![k] =
                   [n |-> 0, err |-> "timeout", quiet |-> now - lastOp]]
    /\ ipc' = [ipc EXCEPT ![k] = "ret"]
    /\ UNCHANGED <<now, connOpen, deadline, dlSet, uCalled, lastOp>>
    /\ UNCHANGED idleEnv

\* The pending call fails because the connection was closed.
IdleFails(k) ==
    /\ ipc[k] = "pending"
    /\ ~connOpen
    /\ ires' = [ires EXCEPT ![k] = [n |-> 0, err |-> "closed", quiet |-> 0]]
    /\ ipc' = [ipc EXCEPT ![k] = "ret"]
    /\ UNCHANGED <<now, connOpen, deadline, dlSet, uCalled, lastOp>>
    /\ UNCHANGED idleEnv

\* The underlying connection is closed (by its peer or by closeBoth).
ConnCloses ==
    /\ connOpen
    /\ connOpen' = FALSE
    /\ UNCHANGED <<now, deadline, ipc, dlSet, uCalled, ires, lastOp>>
    /\ UNCHANGED idleEnv

\* Time passes; a pending call whose deadline has come fails first.
Tick ==
    /\ now < MaxTime
    /\ \A k \in Kinds : (ipc[k] = "pending" /\ connOpen) => now < deadline[k]
    /\ now' = now + 1
    /\ UNCHANGED <<connOpen, deadline, ipc, dlSet, uCalled, ires, lastOp>>
    /\ UNCHANGED idleEnv

IdleTimeoutConn(k) ==
    \/ IdleCall(k)
    \/ IdleSetDeadline(k)
    \/ IdleIO(k)
    \/ IdleComplete(k)
    \/ IdleTimesOut(k)
    \/ IdleFails(k)

IdleNext ==
    \/ \E k \in Kinds : IdleTimeoutConn(k)
    \/ ConnCloses
    \/ Tick

(***************************************************************************)
(* TeeConn and PeakTLSHello(reader)                                        *)
(*                                                                         *)
(* A byte of the stream is "h" when it belongs to a well-formed            *)
(* ClientHello record and "x" otherwise; the record is HelloLen bytes      *)
(* long.  tls.Server(teeConn, tlsConfig).Handshake() reads from teeConn    *)
(* until it has a ClientHello, meets a byte that cannot belong to one, or  *)
(* the stream ends; each Read may take more than the handshake needs.      *)
(***************************************************************************)
Bytes == {"h", "x"}
Streams == UNION {[1..n -> Bytes] : n \in 0..MaxStream}

TeeInit ==
    /\ stream = <<>>
    /\ tpos = 0
    /\ Buffer = <<>>
    /\ got = <<>>
    /\ srcEOF = FALSE
    /\ ppc = "start"
    /\ tlsHello = FALSE
    /\ hsErr = "nil"
    /\ retBuffer = <<>>

\* PeakTLSHello is called on a reader; teeConn := NewTeeConn(reader) starts
\* with Buffer: bytes.NewBuffer([]byte{}).
NewTeeConn ==
    /\ ppc = "start"
    /\ \E st \in Streams : stream' = st
    /\ Buffer' = <<>>
    /\ ppc' = "handshake"
    /\ UNCHANGED <<tpos, got, srcEOF, tlsHello, hsErr, retBuffer>>
    /\ UNCHANGED <<sessVars, lsnVars, chanVars, sndVars, relVars, idleVars>>

\* The handshake has parsed a ClientHello out of the bytes g it has read.
HelloSeen(g) == Len(g) >= HelloLen /\ \A k \in 1..HelloLen : g[k] = "h"
\* The bytes g cannot begin a ClientHello.
Malformed(g) == \E k \in 1..Len(g) : k <= HelloLen /\ g[k] # "h"

\* A tee that copies a chunk only when the Read that returned it returned
\* no error.
TeeWriteUnlessErr(buf, chunk, err) == IF err THEN buf ELSE buf \o chunk

\* io.TeeReader: if n > 0 { t.w.Write(p[:n]) }, whatever err is.
TeeWrite(buf, chunk, err) == buf \o chunk

\* TeeConn.Read(p) with len(p) = size: reader returns n bytes, n > 0 unless
\* the stream has ended, and io.EOF with the last bytes or after them.
Read_Tee(size, n, err) ==
    /\ ppc = "handshake"
    /\ ~HelloSeen(got) /\ ~Malformed(got) /\ ~srcEOF
    /\ n <= size
    /\ n <= Len(stream) - tpos
    /\ (n = 0) => (err /\ tpos = Len(stream))
    /\ err => tpos + n = Len(stream)
    /\ LET chunk == SubSeq(stream, tpos + 1, tpos + n)
       IN  /\ Buffer' = TeeWrite(Buffer, chunk, err)
           /\ got' = got \o chunk
    /\ tpos' = tpos + n
    /\ srcEOF' = err
    /\ UNCHANGED <<stream, ppc, tlsHello, hsErr, retBuffer>>
    /\ UNCHANGED <<sessVars, lsnVars, chanVars, sndVars, relVars, idleVars>>

\* A callback that does not keep the hello it is given.
HelloDropped(seen) == FALSE

\* GetConfigForClient: tlsHello = hello; it runs when a ClientHello was read.
HelloRecorded(seen) == seen

\* The error of Handshake(): GetConfigForClient returns (nil, nil) and
\* tlsConfig holds no certificate, so the handshake aborts after the hello;
\* without a hello it fails on the bytes it read.
HandshakeErr(seen) == IF seen THEN "abort" ELSE "capture"

\* err := tls.Server(teeConn, tlsConfig).Handshake() returns.
Handshake ==
    /\ ppc = "handshake"
    /\ HelloSeen(got) \/ Malformed(got) \/ srcEOF
    /\ tlsHello' = HelloRecorded(HelloSeen(got))
    /\ hsErr' = HandshakeErr(HelloSeen(got))
    /\ ppc' = "return"
    /\ UNCHANGED <<stream, tpos, Buffer, got, srcEOF, retBuffer>>
    /\ UNCHANGED <<sessVars, lsnVars, chanVars, sndVars, relVars, idleVars>>

\* return tlsHello, teeConn.GetBuffer(), err
PeakReturn ==
    /\ ppc = "return"
    /\ retBuffer' = Buffer
    /\ ppc' = "returned"
    /\ UNCHANGED <<stream, tpos, Buffer, got, srcEOF, tlsHello, hsErr>>
    /\ UNCHANGED <<sessVars, lsnVars, chanVars, sndVars, relVars, idleVars>>

PeakTLSHello ==
    \/ NewTeeConn
    \/ \E size \in 1..MaxChunk, n \in 0..MaxChunk, err \in BOOLEAN :
          Read_Tee(size, n, err)
    \/ Handshake
    \/ PeakReturn

Init == SessInit /\ LsnInit /\ SendInit /\ RelayInit /\ TeeInit /\ IdleInit

TeeSpec == Init /\ [][PeakTLSHello]_vars

IdleSpec == Init /\ [][IdleNext]_vars

RelaySpec == Init /\ [][RelayNext]_vars

\* The relay with its goroutines scheduled: the caller and each copy
\* direction take the steps they can; nothing is assumed of the peers, of
\* the deadlines or of who closes a connection from outside.
FairRelaySpec ==
    /\ RelaySpec
    /\ WF_vars(CopyBoth)
    /\ \A d \in Dirs : WF_vars(CopyStep(d))

SendSpec == Init /\ [][SendNext]_vars

\* SendMessage running against the consumer and a teardown, every goroutine
\* that can take a step eventually taking one; the consumer may stay busy.
FairSendSpec ==
    /\ SendSpec
    /\ \A s \in Senders : WF_vars(SendMessage(s))
    /\ WF_vars(CleanUp(TeardownCaller))

(***************************************************************************)
(* Properties                                                              *)
(***************************************************************************)
Returned(c) == cpc[c] = "ret"
Delivered == Range(received) \cup Range(Messages)

\* C1: however often and in whatever interleaving CleanUp is invoked, the
\* teardown body runs exactly once: s.Close is closed at most once, the SSH
\* connection is closed at most once, the session is deleted at most once,
\* the log record is written at most once, and each has happened exactly
\* once as soon as any call has returned.
C1_TeardownExactlyOnce ==
    /\ closeOps <= 1 /\ sshCloseCalls <= 1 /\ deleteCalls <= 1 /\ logCalls <= 1
    /\ (\E c \in Callers : Returned(c)) =>
          closeOps = 1 /\ sshCloseCalls = 1 /\ deleteCalls = 1 /\ logCalls = 1

\* Every caller has made all its calls and returned from the last one.
C1_Witness ==
    /\ \A c \in Callers : calls[c] = MaxCalls /\ Returned(c)
    /\ closeOps = 1

\* C2: the body runs in the order close signal, connection close, tracker
\* delete, log: each step has happened only if the one before it has, and
\* the delete removes the session's own address and no other.
C2_TeardownOrder ==
    /\ logCalls >= 1 => deleteCalls >= 1
    /\ deleteCalls >= 1 => SelfAddr \notin tracker
    /\ SelfAddr \notin tracker => sshCloseCalls >= 1
    /\ sshCloseCalls >= 1 => Close = "closed"
    /\ OtherAddr \in tracker

C2_Witness == SelfAddr \notin tracker /\ logCalls = 1 /\ sshCloseErr

\* C3: a call with block = true that has returned has handed its message
\* to the consumer.
C3_BlockingSendDelivered ==
    \A s \in Senders :
        (blockArg[s] /\ mpc[s] = "ret") => s \in Range(received)

C3_Witness ==
    \E s \in Senders : blockArg[s] /\ mpc[s] = "ret" /\ s \in Range(received)

\* C4: a non-blocking call whose every attempt found the channel full, the
\* close signal not fired (every attempt was followed by a sleep), returns
\* after exactly 5 attempts and 5 sleeps, and its message is neither in the
\* channel nor received.
C4_DroppedAfterFiveAttempts ==
    \A s \in Senders :
        /\ attempts[s] <= MaxAttempts
        /\ (~blockArg[s] /\ mpc[s] = "ret" /\ attempts[s] = sleeps[s]) =>
              /\ attempts[s] = MaxAttempts
              /\ sleeps[s] = MaxAttempts
              /\ s \notin Delivered

C4_Witness ==
    \E s \in Senders :
        /\ ~blockArg[s] /\ mpc[s] = "ret" /\ attempts[s] = sleeps[s]
        /\ Close = "open"
        /\ received # <<>>

\* The close signal fired while s was in its retry loop, after at least one
\* failed attempt and before the fifth.
ClosedWhileRetrying(s) == atClose[s] >= 1 /\ atClose[s] < MaxAttempts

C6_SendAfterCloseReturns ==
    \A s \in Senders :
        [](afterClose[s] /\ mpc[s] # "idle" => <>(mpc[s] = "ret"))

\* C7: once the teardown has run, no entry is added to s.Listeners.
C7_NoListenerAfterTeardown ==
    [][onceDone => Listeners' \subseteq Listeners]_vars

\* C8: once a CleanUp call has completed the teardown, every listener that
\* was registered when the teardown started has been closed.
C8_TeardownClosesListeners ==
    (onceDone /\ \E c \in Callers : Returned(c)) => atTeardown \subseteq lclosed

Spec == Init /\ [][SessionNext]_vars

\* C9 as stated: CopyBoth has returned only if both copy directions have
\* terminated.
C9_ReturnsAfterBothDirections ==
    rpc = "returned" => \A d \in Dirs : dpc[d] = "done"

\* C9, amended: CopyBoth has returned only if the direction run by the
\* caller, copyToWriter, has terminated (its io.Copy ended and its
\* closeBoth ran); the goroutine of copyToReader has been launched and may
\* still be running.
C9_ReturnsAfterLocalDirection ==
    rpc = "returned" =>
        /\ dpc["copyToWriter"] = "done"
        /\ derr["copyToWriter"] # "none"
        /\ dpc["copyToReader"] # "off"

\* CopyBoth has returned while copyToReader is still inside its Read.
C9_Witness == rpc = "returned" /\ dpc["copyToReader"] = "read"

\* The closing of e from outside makes a pending Read or Write on e fail:
\* e was closed by someone else while a direction reads from or writes to
\* it, or e's peer closed while a direction reads from e and nothing is left.
FailsPending(e) ==
    /\ rpc = "running"
    /\ \/ outside[e] = "closed" /\ (Reading(e) \/ Writing(e))
       \/ eof[e] /\ ~avail[e] /\ ~closed[e] /\ Reading(e)

RelayShutDown(e) ==
    /\ rpc = "returned"
    /\ \A d \in Dirs : dpc[d] = "done"
    /\ closeCalls[Other(e)] >= 1
    /\ closed[Other(e)]

\* C10: when an end is closed from outside and a pending Read or Write on
\* it fails, then eventually CopyBoth has returned, both directions have
\* terminated and Close has been called on the other end, whichever end it
\* is and however the first direction ended.
C10_MutualShutdown ==
    \A e \in Ends : FailsPending(e) ~> RelayShutDown(e)

\* The upstream end was closed under a pending call, the first direction
\* ended on an error, and the relay has shut down.
C10_Witness ==
    /\ trigger = "reader"
    /\ firstEnd = "err"
    /\ RelayShutDown("reader")

\* C11: after every Read through the TeeConn the captured buffer equals
\* the bytes returned to the caller so far, which are exactly the prefix
\* of the source consumed so far; once PeakTLSHello has returned, the
\* returned buffer followed by the unread rest of the source is the
\* original stream.
C11_TeeFidelity ==
    /\ Buffer = got
    /\ got = SubSeq(stream, 1, tpos)
    /\ ppc = "returned" =>
          retBuffer \o SubSeq(stream, tpos + 1, Len(stream)) = stream

\* PeakTLSHello has returned a hello, the handshake read past the
\* ClientHello, and part of the stream is still unread.
C11_Witness ==
    /\ ppc = "returned"
    /\ tlsHello
    /\ Len(retBuffer) > HelloLen
    /\ tpos < Len(stream)

\* C12 as stated: a returned hello comes with no error.
C12_ErrorOnlyWithoutHello ==
    (ppc = "returned" /\ tlsHello) => hsErr = "nil"

\* C12 amended: PeakTLSHello returns the error of the handshake as it is,
\* and it is never nil; with a hello it is the abort of the partial
\* handshake, without a hello it is the failure to capture one, so the
\* hello tells the two apart.
C12_HelloTellsErrorsApart ==
    ppc = "returned" =>
        /\ hsErr # "nil"
        /\ tlsHello <=> HelloSeen(retBuffer)
        /\ tlsHello <=> (hsErr = "abort")
        /\ ~tlsHello <=> (hsErr = "capture")

\* A hello was captured and the abort of the handshake was returned.
C12_Witness ==
    /\ ppc = "returned"
    /\ tlsHello
    /\ hsErr = "abort"
    /\ tpos = HelloLen

\* C13: every Read of the wrapper has set the read deadline, and every
\* Write the write deadline, before the underlying call is made; when
\* setting the deadline fails the call returns 0 bytes and that error, and
\* the underlying Read or Write is not invoked.
C13_DeadlineBeforeIO ==
    \A k \in Kinds :
        /\ uCalled[k] => dlSet[k]
        /\ ipc[k] \in {"io", "pending"} =>
              (dlSet[k] /\ deadline[k] >= 0 /\ deadline[k] <= now + IdleTimeout)
        /\ (ipc[k] = "ret" /\ ~dlSet[k]) =>
              /\ ires[k].n = 0
              /\ ires[k].err = "deadline"
              /\ ~uCalled[k]
        /\ (ipc[k] = "ret" /\ dlSet[k]) => uCalled[k] /\ ires[k].err # "deadline"

\* A Write has returned the error of SetWriteDeadline without writing,
\* after a Read that went through the underlying Read.
C13_Witness ==
    /\ ipc["write"] = "ret"
    /\ ires["write"].err = "deadline"
    /\ ~uCalled["write"]
    /\ ipc["read"] = "ret"
    /\ uCalled["read"]
    /\ ires["read"].n = 1

\* C14: a call on the wrapped connection times out only if no Read and no
\* Write occurred on the connection within the timeout before it.
C14_TimeoutOnlyWhenIdle ==
    \A k \in Kinds :
        (ipc[k] = "ret" /\ ires[k].err = "timeout") =>
            ires[k].quiet >= IdleTimeout

\* C15: when a CleanUp call has returned, also one that lost the race to
\* run the body, the whole teardown has completed: the close signal has
\* fired, s.SSHConn.Close() has been called and the session is out of the
\* tracker; no returned caller sees a partly torn down session.
C15_ReturnImpliesTornDown ==
    \A c \in Callers :
        Returned(c) =>
            /\ Close = "closed"
            /\ sshCloseCalls = 1
            /\ SelfAddr \notin tracker
            /\ deleteCalls = 1
            /\ onceDone
            /\ \A b \in Callers : cpc[b] \notin {"close", "sshclose", "delete", "log"}

\* A caller that waited for the mutex while another ran the body has
\* returned from its first call, and the winner has not yet returned.
C15_Witness ==
    \E c \in lost :
        /\ Returned(c)
        /\ calls[c] = 1
        /\ \E b \in Callers \ {c} : cpc[b] = "unlock" \/ (cpc[b] = "ret" /\ calls[b] = 1)

\* C18: when s.SSHConn.Close() fails inside CleanUp the failure is
\* swallowed: the body goes on to delete the session from the tracker and
\* to emit the log record, the call can always proceed to its return, and
\* later calls change nothing.
C18_CloseErrorSwallowed ==
    /\ sshCloseErr =>
          \/ \E c \in Callers : cpc[c] \in {"delete", "log"}
          \/ (deleteCalls = 1 /\ logCalls = 1 /\ SelfAddr \notin tracker)
    /\ \A c \in Callers :
          /\ (sshCloseErr /\ cpc[c] \in {"delete", "log", "store", "unlock"})
                => ENABLED CleanUp(c)
          /\ (sshCloseErr /\ Returned(c)) =>
                /\ deleteCalls = 1
                /\ logCalls = 1
                /\ sshCloseCalls = 1
                /\ closeOps = 1
                /\ SelfAddr \notin tracker

\* s.SSHConn.Close() failed, the teardown completed all the same, and a
\* caller has returned from a second call that changed nothing.
C18_Witness ==
    /\ sshCloseErr
    /\ logCalls = 1
    /\ \E c \in Callers : calls[c] = 2 /\ Returned(c)

\* The directions that have called reader.Close(), and writer.Close().
ClosedReaderBy == {d \in Dirs : dpc[d] \in {"closeWriter", "done"}}
ClosedWriterBy == {d \in Dirs : dpc[d] = "done"}

\* C16: each direction runs closeBoth once, when it terminates on EOF or
\* on an error, and closeBoth calls Close on upstream (reader) and then on
\* downstream (writer): Close is called on each connection at most twice,
\* exactly twice once both directions have terminated, and never before a
\* direction has terminated.
C16_CloseBothOncePerDirection ==
    /\ closeCalls["reader"] = Cardinality(ClosedReaderBy)
    /\ closeCalls["writer"] = Cardinality(ClosedWriterBy)
    /\ \A e \in Ends :
          /\ closeCalls[e] <= 2
          /\ (\A d \in Dirs : dpc[d] = "done") => closeCalls[e] = 2
          /\ closeCalls[e] >= 1 => \E d \in Dirs : derr[d] # "none"
    /\ \A d \in Dirs :
          /\ dpc[d] \in {"closeReader", "closeWriter", "done"} <=> derr[d] # "none"
          /\ derr[d] \in {"none", "eof", "err"}

\* Both directions have terminated, one on EOF and one on an error, and
\* Close has been called twice on each connection.
C16_Witness ==
    /\ \A d \in Dirs : dpc[d] = "done"
    /\ \A e \in Ends : closeCalls[e] = 2
    /\ \E d \in Dirs : derr[d] = "eof"
    /\ \E d \in Dirs : derr[d] = "err"

\* C17: when CopyBoth returns, the direction run on the caller
\* (copyToWriter, upstream into downstream) has terminated and Close has
\* been called on both connections; the launched direction may still be
\* running, and the return does not wait for it: it is possible as soon
\* as copyToWriter is over.
C17_ReturnNotGatedOnGoroutine ==
    /\ rpc = "returned" =>
          /\ dpc["copyToWriter"] = "done"
          /\ \A e \in Ends : closeCalls[e] >= 1 /\ closed[e]
    /\ (rpc = "running" /\ dpc["copyToWriter"] = "done") => ENABLED CopyBothReturn

\* CopyBoth has returned after one closeBoth while copyToReader is still
\* inside its Write to upstream.
C17_Witness ==
    /\ rpc = "returned"
    /\ dpc["copyToReader"] = "write"
    /\ \A e \in Ends : closeCalls[e] = 1

\* How many times the message of sender s has been handed to the channel.
Enqueued(s) ==
    Cardinality({k \in 1..Len(received) : received[k] = s})
    + Cardinality({k \in 1..Len(Messages) : Messages[k] = s})

\* Sender s is inside the retry loop of a non-blocking SendMessage.
InRetryLoop(s) == ~blockArg[s] /\ mpc[s] \in {"select", "sleep"}

\* C19: a non-blocking SendMessage always terminates, whatever the
\* consumer, the other senders and CleanUp do: inside the loop it can
\* always take a step, every step of it is one more attempt or one more
\* sleep, it sleeps at most 5 times and attempts at most 5 times, it
\* enqueues its message at most once, and it has returned as soon as an
\* attempt enqueued the message or observed the close signal.
C19_NonBlockingSendTerminates ==
    /\ [](\A s \in Senders :
            /\ Enqueued(s) <= 1
            /\ ~blockArg[s] =>
                  /\ sleeps[s] <= MaxAttempts
                  /\ attempts[s] <= MaxAttempts
                  /\ attempts[s] <= sleeps[s] + 1
                  /\ outcome[s] \in {"sent", "closed"} => mpc[s] = "ret"
                  /\ (outcome[s] = "sent") <=> (Enqueued(s) = 1)
                  /\ outcome[s] = "dropped" =>
                        (mpc[s] = "ret" /\ sleeps[s] = MaxAttempts)
            /\ InRetryLoop(s) => ENABLED SendMessage(s))
    /\ [][\A s \in Senders :
            (InRetryLoop(s) /\ <<mpc[s], attempts[s], sleeps[s], iCnt[s]>>' #
                               <<mpc[s], attempts[s], sleeps[s], iCnt[s]>>)
               => /\ attempts'[s] + sleeps'[s] = attempts[s] + sleeps[s] + 1
                  /\ mpc'[s] \in {"select", "sleep", "ret"}]_vars

\* One non-blocking call has returned after two sleeps with its message
\* enqueued, and another has returned on the close signal.
C19_Witness ==
    \E s, u \in Senders :
        /\ ~blockArg[s] /\ mpc[s] = "ret" /\ outcome[s] = "sent"
        /\ sleeps[s] = 2 /\ Enqueued(s) = 1
        /\ ~blockArg[u] /\ mpc[u] = "ret" /\ outcome[u] = "closed"
=============================================================================
